---- MODULE Spec2Model ----
(***************************************************************************)
(* State-machine model of src/src/zonos_local_lib/backbone/_torch.py:      *)
(* the transformer backbone, its rotary table (freqs_cis) and the          *)
(* per-layer key/value caches held by InferenceParams.                     *)
(*                                                                         *)
(* Tensors are modelled by their shape and by symbolic entries: an entry   *)
(* of a key/value chunk names the projection, the layer, the token it was  *)
(* computed from and the rotary position applied to it (-1: none).         *)
(* A cache is its allocated shape plus the cells written so far;           *)
(* torch.empty leaves the other cells with whatever the allocation found   *)
(* there (fill).  The rotary table is modelled by its number of rows.      *)
(* Device placement and dtypes are not modelled: every tensor lives on     *)
(* the module's device.  Python asserts are enabled (no -O).               *)
(***************************************************************************)
EXTENDS Integers, Sequences, FiniteSets, TLC

VARIABLES
    backbone,          \* the TorchZonosBackbone instance (or none yet)
    inference_params,  \* the caller's InferenceParams
    last,              \* record of the last call into the core
    hist,              \* per layer and batch row: the chunks written in protocol order
    allocated,         \* has allocate_inference_cache ever been called
    calls              \* number of forward / _update_kv_cache calls made

vars == <<backbone, inference_params, last, hist, allocated, calls>>

(***************************** bounds **************************************)
MaxCalls == 2       \* forward / _update_kv_cache calls per behaviour
MaxSeqLen == 3      \* max_seqlen of the small caches

(********************** inputs and program constants ***********************)
RopeTableLen == 16384           \* rows of the rotary table (line 71)
Layers == {0, 1}                \* range(config.n_layer)
NLayers == Cardinality(Layers)
Rows == {0, 1}                  \* batch rows of an allocated cache
MaxBatch == Cardinality(Rows)
Garbage == {1, 2}                \* what torch.empty may find in memory
HeadPairs == {<<4, 2>>, <<5, 2>>, <<2, 3>>, <<2, 2>>}
Configs == [ssm_cfg : BOOLEAN, heads : HeadPairs, n_layer : {NLayers}]
NoConfig == [ssm_cfg |-> FALSE, heads |-> <<0, 0>>, n_layer |-> 0]
NoFreqs == [has |-> FALSE, len |-> 0]
NoBackbone == [exists |-> FALSE, config |-> NoConfig, freqs_cis |-> NoFreqs]
EmptyData == [c \in {} |-> 0]
NoCall == [op |-> "none", status |-> "none"]

(************************* pure functions **********************************)

\* precompute_freqs_cis: a table with one row per position 0..seq_len-1.
precompute_freqs_cis(seq_len) == [has |-> TRUE, len |-> seq_len]

\* torch.empty(batch_size, max_seqlen, 2, num_heads_kv, head_dim): no cell written.
block_allocate_inference_cache(batch_size, max_seqlen, fill) ==
    [shape |-> <<batch_size, max_seqlen>>, fill |-> fill, data |-> EmptyData]

\* An entry nobody wrote: whatever the allocation found (fill) at that place.
Uninit(fill, b, s) ==
    [proj |-> "uninit", layer |-> -1, token |-> <<fill, b, s>>, rope |-> -1]

\* The content of cache cell (b, s): slot 0 (k) and slot 1 (v).
CellAt(kv_cache, b, s) ==
    IF <<b, s>> \in DOMAIN kv_cache.data
    THEN kv_cache.data[<<b, s>>]
    ELSE [k |-> Uninit(kv_cache.fill, b, s), v |-> Uninit(kv_cache.fill, b, s)]

\* A tensor of shape (B, L, ...) given directly by a caller.
InputTensor(name, id, B, L) ==
    [shape |-> <<B, L>>,
     at |-> [c \in (0 .. B - 1) \X (0 .. L - 1) |->
                [proj |-> name, layer |-> -1, token |-> <<id, c[1], c[2]>>,
                 rope |-> -1]]]

\* A write that ignores the sequence offset (columns from 0).
WriteSliceNoOffset(kv_cache, k, v, batch_start, batch_end, sequence_start, sequence_end) ==
    LET region == (batch_start .. batch_end - 1) \X (0 .. sequence_end - sequence_start - 1)
    IN [kv_cache EXCEPT !.data =
          [c \in (DOMAIN kv_cache.data) \cup region |->
             IF c \in region
             THEN [k |-> k.at[<<c[1] - batch_start, c[2]>>],
                   v |-> v.at[<<c[1] - batch_start, c[2]>>]]
             ELSE kv_cache.data[c]]]

\* A write that addresses every batch row of the cache (batch offset dropped).
WriteSliceAllRows(kv_cache, k, v, batch_start, batch_end, sequence_start, sequence_end) ==
    LET region == (0 .. kv_cache.shape[1] - 1) \X (sequence_start .. sequence_end - 1)
    IN [kv_cache EXCEPT !.data =
          [c \in (DOMAIN kv_cache.data) \cup region |->
             IF c \in region
             THEN [k |-> k.at[<<0, c[2] - sequence_start>>],
                   v |-> v.at[<<0, c[2] - sequence_start>>]]
             ELSE kv_cache.data[c]]]

\* The sliced write of lines 47-48.
WriteSlice(kv_cache, k, v, batch_start, batch_end, sequence_start, sequence_end) ==
    LET region == (batch_start .. batch_end - 1) \X (sequence_start .. sequence_end - 1)
    IN [kv_cache EXCEPT !.data =
          [c \in (DOMAIN kv_cache.data) \cup region |->
             IF c \in region
             THEN [k |-> k.at[<<c[1] - batch_start, c[2] - sequence_start>>],
                   v |-> v.at[<<c[1] - batch_start, c[2] - sequence_start>>]]
             ELSE kv_cache.data[c]]]

\* The view returned by line 49: kv_cache[batch_start:batch_end, :sequence_end].
PrefixView(batch_start, batch_end, sequence_start, sequence_end) ==
    [rows |-> <<batch_start, batch_end>>, cols |-> sequence_end]

NoView == [rows |-> <<0, 0>>, cols |-> 0]

\* assert batch_end <= kv_cache.shape[0]
BatchFits(batch_end, kv_cache) == batch_end <= kv_cache.shape[1]

\* An off-by-one capacity check.
SequenceFitsOffByOne(sequence_end, kv_cache) == sequence_end <= kv_cache.shape[2] + 1

\* assert sequence_end <= kv_cache.shape[1]
SequenceFits(sequence_end, kv_cache) == sequence_end <= kv_cache.shape[2]

\* _update_kv_cache(k, v, inference_params, layer_idx)
update_kv_cache(k, v, params, layer_idx) ==
    LET dict == params.key_value_memory_dict
        failed == [status |-> "AssertionError", dict |-> dict, ret |-> NoView]
    IN IF layer_idx \notin DOMAIN dict THEN failed
       ELSE LET kv_cache == dict[layer_idx]
                batch_start == params.batch_size_offset
                batch_end == batch_start + k.shape[1]
                sequence_start == params.seqlen_offset
                sequence_end == sequence_start + k.shape[2]
            IN IF ~BatchFits(batch_end, kv_cache) THEN failed
               ELSE IF ~SequenceFits(sequence_end, kv_cache) THEN failed
               ELSE [status |-> "ok",
                     dict |-> [dict EXCEPT ![layer_idx] =
                                 WriteSlice(kv_cache, k, v, batch_start, batch_end,
                                            sequence_start, sequence_end)],
                     ret |-> PrefixView(batch_start, batch_end,
                                        sequence_start, sequence_end)]

\* The cells a view shows, read from the cache it aliases.
Fetch(kv_cache, view) ==
    [c \in (view.rows[1] .. view.rows[2] - 1) \X (0 .. view.cols - 1) |->
        CellAt(kv_cache, c[1], c[2])]

(***************************** KVCache unit ********************************)

FreshHist == [i \in Layers |-> [b \in Rows |-> [ok |-> TRUE, seq |-> <<>>]]]

\* hist after a successful write of chunk (k, v) at rows [bs, be), columns from off.
HistAfter(h, layer_idx, k, v, bs, be, off) ==
    [h EXCEPT ![layer_idx] =
        [b \in DOMAIN h[layer_idx] |->
            IF b < bs \/ b >= be THEN h[layer_idx][b]
            ELSE IF h[layer_idx][b].ok /\ Len(h[layer_idx][b].seq) = off
                 THEN [ok |-> TRUE,
                       seq |-> h[layer_idx][b].seq \o
                               [s \in 1 .. k.shape[2] |->
                                   [k |-> k.at[<<b - bs, s - 1>>],
                                    v |-> v.at[<<b - bs, s - 1>>]]]]
                 ELSE [ok |-> FALSE, seq |-> <<>>]]]

KVBackbone ==
    [exists |-> TRUE,
     config |-> [ssm_cfg |-> FALSE, heads |-> <<4, 2>>, n_layer |-> NLayers],
     freqs_cis |-> NoFreqs]

InitKV ==
    /\ backbone = KVBackbone
    /\ \E fill \in Garbage :
          inference_params =
             [seqlen_offset |-> 0, batch_size_offset |-> 0,
              key_value_memory_dict |->
                 [i \in Layers |->
                     block_allocate_inference_cache(MaxBatch, MaxSeqLen, fill)]]
    /\ last = NoCall
    /\ hist = FreshHist
    /\ allocated = FALSE
    /\ calls = 0

\* The generation loop sets the offsets of the decode state; the record of
\* the last call describes the state that call left, so it is dropped here.
SetOffsets(off, boff) ==
    /\ inference_params' = [inference_params EXCEPT !.seqlen_offset = off,
                                                    !.batch_size_offset = boff]
    /\ <<off, boff>> # <<inference_params.seqlen_offset,
                        inference_params.batch_size_offset>>
    /\ last' = NoCall
    /\ UNCHANGED <<backbone, hist, allocated, calls>>

\* A direct call _update_kv_cache(k, v, inference_params, layer_idx).
UpdateKvCache(layer_idx, B, L) ==
    /\ calls < MaxCalls
    /\ LET k == InputTensor("k", calls, B, L)
           v == InputTensor("v", calls, B, L)
           r == update_kv_cache(k, v, inference_params, layer_idx)
       IN /\ inference_params' =
                [inference_params EXCEPT !.key_value_memory_dict = r.dict]
          /\ last' = [op |-> "update", status |-> r.status,
                      layer_idx |-> layer_idx, k |-> k, v |-> v,
                      seqlen_offset |-> inference_params.seqlen_offset,
                      batch_size_offset |-> inference_params.batch_size_offset,
                      pre |-> inference_params.key_value_memory_dict,
                      view |-> r.ret,
                      ret |-> IF r.status = "ok"
                              THEN Fetch(r.dict[layer_idx], r.ret)
                              ELSE EmptyData]
          /\ hist' = IF r.status = "ok"
                     THEN HistAfter(hist, layer_idx, k, v,
                                    inference_params.batch_size_offset,
                                    inference_params.batch_size_offset + B,
                                    inference_params.seqlen_offset)
                     ELSE hist
    /\ calls' = calls + 1
    /\ UNCHANGED <<backbone, allocated>>

KVOffsets == 0 .. MaxSeqLen - 1
BatchOffsets == Rows
Batches == {1, 2}
SeqLens == {1, 2}

NextKV ==
    \/ \E off \in KVOffsets, boff \in BatchOffsets : SetOffsets(off, boff)
    \/ \E layer_idx \in Layers \cup {NLayers}, B \in Batches, L \in SeqLens :
          UpdateKvCache(layer_idx, B, L)

SpecKV == InitKV /\ [][NextKV]_vars

(******************************* Backbone **********************************)

\* A constructor without the architecture check.
backbone_init_unchecked(config) ==
    [status |-> "ok",
     self |-> [exists |-> TRUE, config |-> config, freqs_cis |-> NoFreqs]]

\* TorchZonosBackbone.__init__
backbone_init(config) ==
    IF config.ssm_cfg
    THEN [status |-> "AssertionError", self |-> NoBackbone]
    ELSE [status |-> "ok",
          self |-> [exists |-> TRUE, config |-> config, freqs_cis |-> NoFreqs]]

\* An allocation whose table condition is inverted (hasattr instead of not hasattr).
allocate_inference_cache_inverted(self, batch_size, max_seqlen, fill) ==
    [self |-> [self EXCEPT !.freqs_cis =
                  IF self.freqs_cis.has
                  THEN precompute_freqs_cis(RopeTableLen)
                  ELSE self.freqs_cis],
     caches |-> [i \in 0 .. self.config.n_layer - 1 |->
                    block_allocate_inference_cache(batch_size, max_seqlen, fill)]]

\* TorchZonosBackbone.allocate_inference_cache
allocate_inference_cache(self, batch_size, max_seqlen, fill) ==
    [self |-> [self EXCEPT !.freqs_cis =
                  IF ~self.freqs_cis.has \/ self.freqs_cis.len < RopeTableLen
                  THEN precompute_freqs_cis(RopeTableLen)
                  ELSE self.freqs_cis],
     caches |-> [i \in 0 .. self.config.n_layer - 1 |->
                    block_allocate_inference_cache(batch_size, max_seqlen, fill)]]

\* The key and value projections of layer layer_idx for hidden states x;
\* apply_rotary_emb rotates the key (and the query), never the value.
KProj(layer_idx, x, freqs_cis_for_layer) ==
    [shape |-> x.shape,
     at |-> [c \in (0 .. x.shape[1] - 1) \X (0 .. x.shape[2] - 1) |->
                [proj |-> "k", layer |-> layer_idx, token |-> <<x.id, c[1], c[2]>>,
                 rope |-> freqs_cis_for_layer[c[2]]]]]

VProj(layer_idx, x) ==
    [shape |-> x.shape,
     at |-> [c \in (0 .. x.shape[1] - 1) \X (0 .. x.shape[2] - 1) |->
                [proj |-> "v", layer |-> layer_idx, token |-> <<x.id, c[1], c[2]>>,
                 rope |-> -1]]]

\* A mask applied on every call.
IsCausalAlways(seqlen) == TRUE

\* is_causal argument of F.scaled_dot_product_attention
IsCausal(seqlen) == seqlen > 1

\* A causal mask aligned to the bottom-right corner (absolute positions).
sdpa_attends_bottom_right(is_causal, L, S, i, j) == ~is_causal \/ j <= i + (S - L)

\* F.scaled_dot_product_attention for L queries and S keys: with is_causal the
\* mask is ones(L, S).tril(0), i.e. query i sees key j iff j <= i; without it
\* every query sees every key.
sdpa_attends(is_causal, L, S, i, j) == ~is_causal \/ j <= i

NoAttn == [is_causal |-> FALSE, q_len |-> 0, kv_len |-> 0]

\* Attention.forward
attention_forward(config, layer_idx, x, params, freqs_cis_for_layer) ==
    LET num_heads == config.heads[1]
        num_heads_kv == config.heads[2]
        seqlen == x.shape[2]
        k == KProj(layer_idx, x, freqs_cis_for_layer)
        v == VProj(layer_idx, x)
        kv == update_kv_cache(k, v, params, layer_idx)
        k_heads == IF num_heads_kv < num_heads
                   THEN num_heads_kv * (num_heads \div num_heads_kv)
                   ELSE num_heads_kv
    IN IF kv.status # "ok"
       THEN [status |-> kv.status, dict |-> kv.dict, attn |-> NoAttn]
       ELSE IF num_heads_kv < num_heads /\ num_heads % num_heads_kv # 0
       THEN [status |-> "ValueError", dict |-> kv.dict, attn |-> NoAttn]
       ELSE IF k_heads # num_heads
       THEN [status |-> "RuntimeError:shape", dict |-> kv.dict, attn |-> NoAttn]
       ELSE [status |-> "ok", dict |-> kv.dict,
             attn |-> [is_causal |-> IsCausal(seqlen), q_len |-> seqlen,
                       kv_len |-> kv.ret.cols]]

\* The loop of TorchZonosBackbone.forward over self.layers, from layer i on.
RECURSIVE RunLayers(_, _, _, _, _, _)
RunLayers(i, config, x, params, freqs_cis_for_layer, attn) ==
    IF i >= config.n_layer
    THEN [status |-> "ok", dict |-> params.key_value_memory_dict, attn |-> attn]
    ELSE LET r == attention_forward(config, i, x, params, freqs_cis_for_layer)
         IN IF r.status # "ok" THEN r
            ELSE RunLayers(i + 1, config, x,
                           [params EXCEPT !.key_value_memory_dict = r.dict],
                           freqs_cis_for_layer, r.attn)

\* TorchZonosBackbone.forward
backbone_forward(self, x, params) ==
    LET current_seq_len == x.shape[2]
        start_pos == params.seqlen_offset
        positions == [s \in 0 .. current_seq_len - 1 |-> start_pos + s]
        unchanged == params.key_value_memory_dict
    IN IF ~self.freqs_cis.has
       THEN [status |-> "RuntimeError:freqs_cis", dict |-> unchanged, attn |-> NoAttn]
       ELSE IF \E s \in DOMAIN positions : positions[s] >= self.freqs_cis.len
       THEN [status |-> "IndexError", dict |-> unchanged, attn |-> NoAttn]
       ELSE RunLayers(0, self.config, x, params, positions, NoAttn)

Init ==
    /\ backbone = NoBackbone
    /\ inference_params = [seqlen_offset |-> 0, batch_size_offset |-> 0,
                           key_value_memory_dict |-> EmptyData]
    /\ last = NoCall
    /\ hist = FreshHist
    /\ allocated = FALSE
    /\ calls = 0

\* TorchZonosBackbone(config)
Construct(config) ==
    /\ ~backbone.exists
    /\ LET r == backbone_init(config)
       IN /\ backbone' = r.self
          /\ last' = [op |-> "init", status |-> r.status, config |-> config]
    /\ UNCHANGED <<inference_params, hist, allocated, calls>>

\* inference_params.key_value_memory_dict =
\*     backbone.allocate_inference_cache(batch_size, max_seqlen)
Allocate(batch_size, max_seqlen, fill) ==
    /\ backbone.exists
    /\ LET r == allocate_inference_cache(backbone, batch_size, max_seqlen, fill)
       IN /\ backbone' = r.self
          /\ inference_params' =
                [inference_params EXCEPT !.key_value_memory_dict = r.caches]
          /\ last' = [op |-> "allocate", status |-> "ok",
                      batch_size |-> batch_size, max_seqlen |-> max_seqlen]
    /\ allocated' = TRUE
    /\ UNCHANGED <<hist, calls>>

\* backbone(hidden_states, inference_params), hidden_states of shape (B, L, d_model)
Forward(B, L) ==
    /\ backbone.exists
    /\ calls < MaxCalls
    /\ LET x == [shape |-> <<B, L>>, id |-> calls]
           r == backbone_forward(backbone, x, inference_params)
       IN /\ inference_params' =
                [inference_params EXCEPT !.key_value_memory_dict = r.dict]
          /\ last' = [op |-> "forward", status |-> r.status, x |-> x,
                      pre |-> inference_params, pre_freqs |-> backbone.freqs_cis,
                      attn |-> r.attn,
                      out |-> IF r.status = "ok" THEN <<B, L>> ELSE <<>>]
    /\ calls' = calls + 1
    /\ UNCHANGED <<backbone, hist, allocated>>

Offsets == 0 .. MaxSeqLen - 1

Next ==
    \/ \E config \in Configs : Construct(config)
    \/ \E fill \in Garbage : Allocate(MaxBatch, MaxSeqLen, fill)
    \/ \E off \in Offsets, boff \in BatchOffsets : SetOffsets(off, boff)
    \/ \E B \in Batches, L \in SeqLens : Forward(B, L)

Spec == Init /\ [][Next]_vars

(**************** Backbone with caches longer than the table ***************)

RopeBackbone ==
    [exists |-> TRUE,
     config |-> [ssm_cfg |-> FALSE, heads |-> <<4, 2>>, n_layer |-> NLayers],
     freqs_cis |-> NoFreqs]

InitRope ==
    /\ backbone = RopeBackbone
    /\ inference_params = [seqlen_offset |-> 0, batch_size_offset |-> 0,
                           key_value_memory_dict |-> EmptyData]
    /\ last = NoCall
    /\ hist = FreshHist
    /\ allocated = FALSE
    /\ calls = 0

RopeSeqLens == {MaxSeqLen, RopeTableLen, RopeTableLen + 1}
RopeOffsets == {0, RopeTableLen - 2, RopeTableLen - 1, RopeTableLen}

NextRope ==
    \/ \E max_seqlen \in RopeSeqLens, fill \in Garbage :
          Allocate(MaxBatch, max_seqlen, fill)
    \/ \E off \in RopeOffsets, boff \in BatchOffsets : SetOffsets(off, boff)
    \/ \E B \in Batches, L \in SeqLens : Forward(B, L)

SpecRope == InitRope /\ [][NextRope]_vars

(******************************* claims ************************************)

Dict == inference_params.key_value_memory_dict

UpdateOk == last.op = "update" /\ last.status = "ok"
ForwardDone == last.op = "forward"
ForwardOk == last.op = "forward" /\ last.status = "ok"

\* The rows and columns a forward call addresses.
FwdRows == last.pre.batch_size_offset ..
           (last.pre.batch_size_offset + last.x.shape[1] - 1)
FwdCols == last.pre.seqlen_offset ..
           (last.pre.seqlen_offset + last.x.shape[2] - 1)
FwdRegion == FwdRows \X FwdCols

\* The key columns query i of the last forward call attends to.
Attended(i) ==
    {j \in 0 .. last.attn.kv_len - 1 :
        sdpa_attends(last.attn.is_causal, last.attn.q_len, last.attn.kv_len, i, j)}

\* C1: cache round trip. After a successful _update_kv_cache call, for every
\* addressed batch row whose writes since allocation started at offset 0 and
\* continued each at the previous offset plus the previous chunk length, the
\* returned prefix equals, column by column, the concatenation of the chunks
\* written so far.
C1_CacheRoundTrip ==
    UpdateOk =>
       \A b \in last.view.rows[1] .. last.view.rows[2] - 1 :
          hist[last.layer_idx][b].ok =>
             /\ Len(hist[last.layer_idx][b].seq) = last.view.cols
             /\ \A s \in 0 .. last.view.cols - 1 :
                   /\ <<b, s>> \in DOMAIN last.ret
                   /\ last.ret[<<b, s>>] = hist[last.layer_idx][b].seq[s + 1]

\* C1 witness: a second chunk appended in protocol order (prefill of 2, then a
\* decode step at offset 2) and fetched back.
C1_Witness ==
    /\ UpdateOk
    /\ calls = 2
    /\ last.seqlen_offset = 2
    /\ \E b \in last.view.rows[1] .. last.view.rows[2] - 1 :
          /\ hist[last.layer_idx][b].ok
          /\ Len(hist[last.layer_idx][b].seq) = 3

\* C2: _update_kv_cache fails when the batch range or the sequence range
\* exceeds the cache, or the layer has no cache; a failing call modifies no
\* cell of any cache; every written cell lies inside its cache's shape.
C2_Missing == last.layer_idx \notin DOMAIN last.pre
C2_BatchOverflow ==
    /\ ~C2_Missing
    /\ last.batch_size_offset + last.k.shape[1] > last.pre[last.layer_idx].shape[1]
C2_SeqOverflow ==
    /\ ~C2_Missing
    /\ last.seqlen_offset + last.k.shape[2] > last.pre[last.layer_idx].shape[2]

C2_UpdateCapacity ==
    /\ last.op = "update" =>
          /\ (C2_Missing \/ C2_BatchOverflow \/ C2_SeqOverflow) =>
                (last.status = "AssertionError" /\ Dict = last.pre)
          /\ last.status # "ok" => Dict = last.pre
    /\ \A i \in DOMAIN Dict :
          \A c \in DOMAIN Dict[i].data :
             /\ c[1] \in 0 .. Dict[i].shape[1] - 1
             /\ c[2] \in 0 .. Dict[i].shape[2] - 1

\* C2 witness: a call whose sequence range exceeds the capacity is refused
\* while the cache already holds written cells.
C2_Witness ==
    /\ last.op = "update"
    /\ C2_SeqOverflow
    /\ ~C2_BatchOverflow
    /\ last.status = "AssertionError"
    /\ DOMAIN last.pre[last.layer_idx].data # {}

\* C3: a forward call either completes with every layer's cache holding the
\* call's chunk in the addressed region, or fails (capacity or missing cache:
\* AssertionError; table lookup: IndexError; head divisibility: ValueError)
\* and leaves every layer's cache as it was before the call.
C3_ForwardAllOrNothing ==
    ForwardDone =>
       /\ last.status = "ok" =>
             \A i \in Layers :
                \A c \in FwdRegion :
                   /\ c \in DOMAIN Dict[i].data
                   /\ Dict[i].data[c].k.token =
                         <<last.x.id, c[1] - last.pre.batch_size_offset,
                           c[2] - last.pre.seqlen_offset>>
       /\ last.status \in {"AssertionError", "IndexError", "ValueError"} =>
             Dict = last.pre.key_value_memory_dict

\* C4: in a prefill call (length L > 1 at offset 0) query i attends exactly
\* to key positions 0..i; in a decode call (length 1 at offset o) the query
\* attends to every cached position 0..o, its own included.
C4_CausalMasking ==
    ForwardOk =>
       /\ (last.x.shape[2] > 1 /\ last.pre.seqlen_offset = 0) =>
             \A i \in 0 .. last.x.shape[2] - 1 : Attended(i) = 0 .. i
       /\ last.x.shape[2] = 1 => Attended(0) = 0 .. last.pre.seqlen_offset

\* C4 witness: a decode step at offset 2 over a cache whose positions 0 and 1
\* were written by an earlier call.
C4_Witness ==
    /\ ForwardOk
    /\ last.x.shape[2] = 1
    /\ last.pre.seqlen_offset = 2
    /\ \A j \in {0, 1} :
          <<last.pre.batch_size_offset, j>> \in
             DOMAIN last.pre.key_value_memory_dict[0].data

\* C5: with num_heads not divisible by num_heads_kv, a forward call that gets
\* as far as the attention of a layer fails with the configuration error.
C5_HeadDivisibility ==
    (/\ ForwardDone
     /\ backbone.config.heads[1] % backbone.config.heads[2] # 0
     /\ last.status \notin {"RuntimeError:freqs_cis", "IndexError", "AssertionError"})
       => last.status = "ValueError"

\* C6: forward before any allocate_inference_cache fails with the usage error,
\* writes no cache cell and produces no output; once allocate_inference_cache
\* has been called, forward never fails with that error.
C6_UsageOrder ==
    ForwardDone =>
       /\ ~allocated =>
             /\ last.status = "RuntimeError:freqs_cis"
             /\ Dict = last.pre.key_value_memory_dict
             /\ last.out = <<>>
       /\ allocated => last.status # "RuntimeError:freqs_cis"

\* C6 witness: a forward call on a constructed backbone that was never
\* allocated.
C6_Witness ==
    /\ ForwardDone
    /\ ~allocated
    /\ backbone.exists
    /\ last.status = "RuntimeError:freqs_cis"

\* C7: after allocation the rotary table covers at least
\* max(16384, max_seqlen) positions, and a forward call whose positions lie
\* within the allocated cache capacity never fails on the table lookup.
C7_RotaryCoverage ==
    /\ allocated =>
          \A i \in DOMAIN Dict :
             /\ backbone.freqs_cis.has
             /\ backbone.freqs_cis.len >= RopeTableLen
             /\ backbone.freqs_cis.len >= Dict[i].shape[2]
    /\ (/\ ForwardDone
        /\ allocated
        /\ \A i \in DOMAIN last.pre.key_value_memory_dict :
              last.pre.seqlen_offset + last.x.shape[2] <=
                 last.pre.key_value_memory_dict[i].shape[2])
          => last.status # "IndexError"

\* C8: constructing the backbone with a state-space configuration fails, and
\* no backbone instance ever holds such a configuration.
C8_NoStateSpace ==
    /\ backbone.exists => ~backbone.config.ssm_cfg
    /\ (last.op = "init" /\ last.config.ssm_cfg) =>
          (last.status = "AssertionError" /\ ~backbone.exists)

\* C8 witness: a construction with a state-space configuration was attempted.
C8_Witness ==
    /\ last.op = "init"
    /\ last.config.ssm_cfg
    /\ last.status = "AssertionError"

\* C9: frame of a successful forward call. The cache under key i receives the
\* chunk of layer i, and only in the addressed rows and columns; every other
\* cell, the shapes, the offsets, the keys of the cache map and the rotary
\* table are as before the call.
C9_ForwardFrame ==
    ForwardOk =>
       LET pre == last.pre.key_value_memory_dict
       IN /\ DOMAIN Dict = DOMAIN pre
          /\ \A i \in DOMAIN Dict :
                /\ Dict[i].shape = pre[i].shape
                /\ Dict[i].fill = pre[i].fill
                /\ DOMAIN Dict[i].data = (DOMAIN pre[i].data) \cup FwdRegion
                /\ \A c \in DOMAIN Dict[i].data :
                      IF c \in FwdRegion
                      THEN /\ Dict[i].data[c].k.layer = i
                           /\ Dict[i].data[c].v.layer = i
                      ELSE Dict[i].data[c] = pre[i].data[c]
          /\ inference_params.seqlen_offset = last.pre.seqlen_offset
          /\ inference_params.batch_size_offset = last.pre.batch_size_offset
          /\ backbone.freqs_cis = last.pre_freqs

\* C9 witness: a successful call on one batch row at offset 2 while other
\* cells of the caches were already written.
C9_Witness ==
    /\ ForwardOk
    /\ last.x.shape = <<1, 1>>
    /\ last.pre.seqlen_offset = 2
    /\ \E c \in DOMAIN last.pre.key_value_memory_dict[1].data : c \notin FwdRegion

\* C10: the mask is applied iff the query length exceeds 1, and it is built
\* from chunk-local indices: in a call of length L > 1 at offset o > 0 query i
\* attends to columns 0..i, which is not the causal set 0..o+i.
C10_LocalMask ==
    ForwardOk =>
       /\ last.attn.is_causal <=> last.x.shape[2] > 1
       /\ (last.x.shape[2] > 1 /\ last.pre.seqlen_offset > 0) =>
             \A i \in 0 .. last.x.shape[2] - 1 :
                /\ Attended(i) = 0 .. i
                /\ Attended(i) # 0 .. (last.pre.seqlen_offset + i)

\* C10 witness: a two-token call at offset 1 against a cache whose position 0
\* is already written.
C10_Witness ==
    /\ ForwardOk
    /\ last.x.shape[2] = 2
    /\ last.pre.seqlen_offset = 1
    /\ <<last.pre.batch_size_offset, 0>> \in
          DOMAIN last.pre.key_value_memory_dict[0].data

====
